---- MODULE Spec2Model ----
(***************************************************************************)
(* Model of jenkins_pipeline_simulator.py: the JenkinsPipelineSimulator    *)
(* object, its five stage functions, run_command, log and run_pipeline,    *)
(* together with the two directories of the filesystem it works on.        *)
(*                                                                         *)
(* One process is one construction of the simulator followed by one        *)
(* run_pipeline and sys.exit; the filesystem outlives the process, so a    *)
(* second process finds what the first one left.                           *)
(*                                                                         *)
(* The environment is nondeterministic: the result of every child          *)
(* process, what the clone delivers, and filesystem faults (an OSError     *)
(* raised by rmtree, makedirs, copy2, copytree, open or write).  Only      *)
(* exceptions deriving from Exception are modelled; an interrupt of the    *)
(* process from outside is not a step of the program.  print is taken      *)
(* never to fail.                                                          *)
(***************************************************************************)
EXTENDS Integers, Sequences, FiniteSets, TLC

\* Number of processes (runs of the script) in succession on the same host.
MaxRuns == 2

(***************************************************************************)
(* Names on the filesystem                                                 *)
(***************************************************************************)
VenvDir == "venv"

ManifestFile == "DEPLOYMENT_INFO.txt"

\* Mutant: the templates directory is not among the required artifacts.
required_files_no_templates == <<"app.py", "requirements.txt">>

required_files == <<"app.py", "requirements.txt", "templates">>

files_to_copy == <<"app.py", "requirements.txt", "templates", "test_app.py">>

\* What the fetched repository may hold at its root (the collaborator's four
\* artifacts).
RepoEntries == {"app.py", "requirements.txt", "templates", "test_app.py"}

\* What a successful clone may deliver: a repository that lacks any of the
\* three required artifacts, one that lacks the test file alone, or an empty
\* one.
Deliveries ==
    {d \in SUBSET RepoEntries :
        "test_app.py" \in d \/ d = RepoEntries \ {"test_app.py"} \/ d = {}}

\* os.path.isdir of an entry that exists: templates and venv are directories.
IsDirEntry(name) == name \in {"templates", VenvDir}

\* An entry of the deployment directory nobody of this program writes.
StaleEntry == "old_release.cfg"

Range(s) == {s[i] : i \in DOMAIN s}

(***************************************************************************)
(* Commands                                                                *)
(***************************************************************************)
Platforms == {"win32", "linux"}

clone_cmd == "git clone https://github.com/Asad-Khurshid1585/SSD-Final.git ."

venv_cmd == "python -m venv venv"

pip_cmd(platform) ==
    IF platform = "win32"
    THEN "venv\\Scripts\\pip install -r requirements.txt"
    ELSE ". venv/bin/activate && pip install -r requirements.txt"

pytest_cmd(platform) ==
    IF platform = "win32"
    THEN "venv\\Scripts\\pytest test_app.py -v --tb=short"
    ELSE ". venv/bin/activate && pytest test_app.py -v --tb=short"

\* What subprocess.run can do once the child was started: the child exits with
\* a return code, or subprocess.run raises (for instance while decoding the
\* captured output).  A successful git clone or venv creation prints nothing
\* on stdout (git reports on stderr); pip and pytest print their report.
RetCodes == {0, 1}

NoExc == "none"

PrintsOnSuccess(command) == command \notin {clone_cmd, venv_cmd}

CmdOutcomes(command) ==
    {[kind |-> "exit", rc |-> 0, out |-> PrintsOnSuccess(command), exc |-> NoExc]}
    \cup {[kind |-> "exit", rc |-> r, out |-> FALSE, exc |-> NoExc] : r \in RetCodes \ {0}}
    \cup {[kind |-> "raise", rc |-> 0, out |-> FALSE, exc |-> "UnicodeDecodeError"]}

\* subprocess.run with a cwd that does not exist raises before any child runs.
CwdMissing == [kind |-> "raise", rc |-> 0, out |-> FALSE, exc |-> "FileNotFoundError"]

(***************************************************************************)
(* Exceptions: every class raised in the model derives from Exception, so  *)
(* the handlers `except Exception` catch all of them.                      *)
(***************************************************************************)
ExcClasses == {"FileNotFoundError", "PermissionError", "OSError", "UnicodeDecodeError"}

IsException(exc) == exc \in ExcClasses

\* The four handlers: `except Exception` at line 48 (run_command), line 145
\* (the copy of one artifact), line 158 (the manifest) and line 184 (the loop
\* of run_pipeline).
\* Mutant: run_command catches only subprocess.CalledProcessError.
CaughtInRunCommand_called_process_error(exc) == exc = "CalledProcessError"

CaughtInRunCommand(exc) == IsException(exc)

\* Mutant: the copy loop catches only FileNotFoundError.
CaughtInCopy_file_not_found(exc) == exc = "FileNotFoundError"

CaughtInCopy(exc) == IsException(exc)

CaughtInManifest(exc) == IsException(exc)

\* Mutant: the loop of run_pipeline catches only FileNotFoundError.
CaughtInRunPipeline_file_not_found(exc) == exc = "FileNotFoundError"

CaughtInRunPipeline(exc) == IsException(exc)

(***************************************************************************)
(* log                                                                     *)
(***************************************************************************)
NoStage == "None"

\* Mutant: log() overwrites the last entry instead of appending.
Log_overwrite(bl, stage, msg, arg, text) ==
    LET log_message == [tagged |-> stage # NoStage, stage |-> stage, msg |-> msg,
                        arg |-> arg, text |-> text]
    IN  IF bl = << >> THEN <<log_message>>
        ELSE [bl EXCEPT ![Len(bl)] = log_message]

\* One entry of build_log: f"[{stage}] [{timestamp}] {message}".  The message
\* is kept as its fixed text, the name it carries and the exception or stream
\* text it carries; the stage prefix is present only when a stage is given.
Log(bl, stage, msg, arg, text) ==
    LET log_message == [tagged |-> FALSE, stage |-> NoStage, msg |-> msg, arg |-> arg, text |-> text]
    IN  IF stage # NoStage
        THEN Append(bl, [log_message EXCEPT !.tagged = TRUE, !.stage = stage])
        ELSE Append(bl, log_message)

(***************************************************************************)
(* run_command, from the point where subprocess.run has returned or raised *)
(* with outcome o.  Result: the log and what the caller gets.              *)
(***************************************************************************)
Returned(bl, val) == [log |-> bl, kind |-> "ret", val |-> val, exc |-> NoExc]

Raised(bl, exc) == [log |-> bl, kind |-> "raise", val |-> FALSE, exc |-> exc]

run_command(bl, command, stage, o) ==
    IF o.kind = "raise"
    THEN IF CaughtInRunCommand(o.exc)
         THEN Returned(Log(bl, stage, "Exception executing command", "", o.exc), FALSE)
         ELSE Raised(bl, o.exc)
    ELSE IF o.rc # 0
    THEN Returned(Log(Log(bl, stage, "Command failed", command, ""),
                      stage, "Error", "", "stderr"), FALSE)
    ELSE LET bl1 == Log(bl, stage, "Command executed successfully", "", "")
         IN  IF o.out
             THEN Returned(Log(bl1, stage, "Output", "", "stdout[:200]..."), TRUE)
             ELSE Returned(bl1, TRUE)

(***************************************************************************)
(* run_pipeline: the stage descriptors and the results mapping             *)
(***************************************************************************)
\* Mutant: the build is listed before the tests.
stages_build_first ==
    << [name |-> "Clone Repository",     func |-> 1],
       [name |-> "Install Dependencies", func |-> 2],
       [name |-> "Build Application",    func |-> 4],
       [name |-> "Run Unit Tests",       func |-> 3],
       [name |-> "Deploy Application",   func |-> 5] >>

stages ==
    << [name |-> "Clone Repository",     func |-> 1],
       [name |-> "Install Dependencies", func |-> 2],
       [name |-> "Run Unit Tests",       func |-> 3],
       [name |-> "Build Application",    func |-> 4],
       [name |-> "Deploy Application",   func |-> 5] >>

PASSED == "PASSED"

FAILED == "FAILED"

\* results is a dict: insertion-ordered, one value per key.
DictKeys(d) == {d[i].key : i \in DOMAIN d}

DictGet(d, k) == d[CHOOSE i \in DOMAIN d : d[i].key = k].val

DictSet(d, k, v) ==
    IF k \in DictKeys(d)
    THEN [i \in DOMAIN d |-> IF d[i].key = k THEN [key |-> k, val |-> v] ELSE d[i]]
    ELSE Append(d, [key |-> k, val |-> v])

\* Mutant: the verdict taken as any() instead of all().
AllPassed_any(d) == \E i \in DOMAIN d : d[i].val = PASSED

\* all(v == "PASSED" for v in results.values())
AllPassed(d) == \A i \in DOMAIN d : d[i].val = PASSED

\* Mutant: the handler of the loop logs the exception and records nothing.
RunnerRecord_no_outcome(res, bl, stage_name, out) ==
    IF out.kind = "ret"
    THEN [results |-> DictSet(res, stage_name, IF out.val THEN PASSED ELSE FAILED),
          log |-> bl, escaped |-> FALSE]
    ELSE [results |-> res,
          log |-> Log(bl, stage_name, "Exception in", stage_name, out.exc),
          escaped |-> FALSE]

\* The body of the loop once the stage function has returned or raised `out`
\* (lines 182-186): the outcome recorded, the log, and whether the exception
\* leaves run_pipeline.
RunnerRecord(res, bl, stage_name, out) ==
    IF out.kind = "ret"
    THEN [results |-> DictSet(res, stage_name, IF out.val THEN PASSED ELSE FAILED),
          log |-> bl, escaped |-> FALSE]
    ELSE IF CaughtInRunPipeline(out.exc)
    THEN [results |-> DictSet(res, stage_name, FAILED),
          log |-> Log(bl, stage_name, "Exception in", stage_name, out.exc),
          escaped |-> FALSE]
    ELSE [results |-> res, log |-> bl, escaped |-> TRUE]

(***************************************************************************)
(* State                                                                   *)
(***************************************************************************)
VARIABLES
    platform,   \* sys.platform of the host
    run,        \* which process (run of the script) this is, 1..MaxRuns
    pc,         \* where the process is
    cur,        \* index in stages of the loop of run_pipeline
    child,      \* the command of the child process run_command waits for
    build_log,  \* self.build_log
    results,    \* results of run_pipeline
    all_passed, \* all_passed of run_pipeline, the value it returns
    tree,       \* whether the report printed the tree of the deployment directory
    exit_code,  \* exit status of the process, -1 while it runs
    ws,         \* the workspace directory: whether it exists, its entries, and
                \* the run whose clone wrote them
    dep,        \* the deployment directory: whether it exists, and for each
                \* entry whether it is there and the run whose content it holds
    manifest,   \* DEPLOYMENT_INFO.txt in the deployment directory
    invoked,    \* history: the names of the stages whose function was called
    rets,       \* history: what each stage function returned in this run
    cmd_ret,    \* history: the last call of run_command, its outcome and result
    cmds,       \* history: the commands run_command was called with in this
                \* run, in order, each with the outcome of subprocess.run
    fault,      \* history: the filesystem fault the deploy stage met
    manifest0   \* history: DEPLOYMENT_INFO.txt as it was when the process started

vars == <<platform, run, pc, cur, child, build_log, results, all_passed, tree,
          exit_code, ws, dep, manifest, invoked, rets, cmd_ret, cmds, fault,
          manifest0>>

deployment_dir == "<cwd>/simulated_deployment"

DepEntries == Range(files_to_copy) \cup {StaleEntry}

Absent == [present |-> FALSE, ver |-> 0]

NoManifest == [present |-> FALSE, lines |-> << >>]

NoCmd == [cmd |-> "", stage |-> NoStage, o |-> CwdMissing, kind |-> "none", val |-> FALSE,
          before |-> 0]

NoFault == [op |-> "none", at |-> 0, k |-> 0]

\* The outcome of a command whose child process has not ended yet.
Pending == [kind |-> "pending", rc |-> 0, out |-> FALSE, exc |-> NoExc]

\* run_command is called with `command`: subprocess.run starts the child, or
\* raises at once (o).
Called(cs, command, o) == Append(cs, [cmd |-> command, o |-> o])

\* subprocess.run returns or raises with outcome o for the child it waited for.
Ended(cs, o) == [cs EXCEPT ![Len(cs)].o = o]

NoRets == [i \in 1..5 |-> "none"]

\* The entries of the workspace os.path.exists finds.
WsEntries(w) == IF w.exists THEN w.files ELSE {}

\* JenkinsPipelineSimulator.__init__ in a fresh process.
Construct ==
    /\ pc = "new"
    /\ cur = 0
    /\ child = "none"
    /\ build_log = << >>
    /\ results = << >>
    /\ all_passed = FALSE
    /\ tree = FALSE
    /\ exit_code = -1
    /\ invoked = << >>
    /\ rets = NoRets
    /\ cmd_ret = NoCmd
    /\ cmds = << >>
    /\ fault = NoFault

Init ==
    /\ platform \in Platforms
    /\ run = 1
    /\ Construct
    /\ ws = [exists |-> FALSE, files |-> {}, ver |-> 0]
    /\ \E stale \in BOOLEAN :
          dep = [exists |-> stale,
                 files |-> [n \in DepEntries |->
                              IF stale /\ n = StaleEntry
                              THEN [present |-> TRUE, ver |-> 0] ELSE Absent]]
    /\ manifest = NoManifest
    /\ manifest0 = manifest

(***************************************************************************)
(* run_pipeline                                                            *)
(***************************************************************************)
RetName(out) == IF out.kind = "raise" THEN "raise" ELSE IF out.val THEN "True" ELSE "False"

\* The stage function of stages[cur] returns or raises `out`; the loop body
\* records it and the loop goes on.
Return(out) ==
    LET r == RunnerRecord(results, out.log, stages[cur].name, out)
    IN  /\ build_log' = r.log
        /\ results' = r.results
        /\ rets' = [rets EXCEPT ![stages[cur].func] = RetName(out)]
        /\ pc' = IF r.escaped THEN "crashed" ELSE "loop"
        /\ exit_code' = IF r.escaped THEN 1 ELSE exit_code
        /\ child' = "none"

\* run_command starts `command`: subprocess.run raises at once when the
\* workspace does not exist, else the child runs and the process waits.
Outcome(command, stage, o, r, bl) ==
    [cmd |-> command, stage |-> stage, o |-> o, kind |-> r.kind, val |-> r.val,
     before |-> Len(bl)]

\* Lines 167-179: banner, stage list, empty results.
RunPipeline ==
    /\ pc = "new"
    /\ pc' = "loop"
    /\ cur' = 0
    /\ results' = << >>
    /\ UNCHANGED <<platform, run, child, build_log, all_passed, tree, exit_code,
                   ws, dep, manifest, invoked, rets, cmd_ret, cmds, fault, manifest0>>

\* Mutant: the loop breaks once an outcome is not PASSED.
NextStage_break_on_failure ==
    /\ pc = "loop"
    /\ cur < Len(stages)
    /\ IF AllPassed(results)
       THEN /\ cur' = cur + 1
            /\ invoked' = Append(invoked, stages[cur + 1].name)
            /\ pc' = "call"
       ELSE /\ cur' = Len(stages)
            /\ UNCHANGED <<invoked, pc>>
    /\ UNCHANGED <<platform, run, child, build_log, results, all_passed, tree,
                   exit_code, ws, dep, manifest, rets, cmd_ret, cmds, fault, manifest0>>

\* Line 180 and 182: the loop takes the next descriptor and calls its function.
NextStage ==
    /\ pc = "loop"
    /\ cur < Len(stages)
    /\ cur' = cur + 1
    /\ invoked' = Append(invoked, stages[cur + 1].name)
    /\ pc' = "call"
    /\ UNCHANGED <<platform, run, child, build_log, results, all_passed, tree,
                   exit_code, ws, dep, manifest, rets, cmd_ret, cmds, fault, manifest0>>

(***************************************************************************)
(* Stage 1: Clone Repository                                               *)
(***************************************************************************)
\* Mutant: the success of the clone is logged under the tag of stage 2.
stage_1_result_wrong_tag(r) ==
    IF r.kind = "raise" THEN Raised(r.log, r.exc)
    ELSE IF r.val
    THEN Returned(Log(r.log, "STAGE-2", "Repository cloned successfully", "", ""), TRUE)
    ELSE Returned(r.log, FALSE)

\* Lines 63-66: what the stage returns once run_command gave r.
stage_1_result(r) ==
    IF r.kind = "raise" THEN Raised(r.log, r.exc)
    ELSE IF r.val
    THEN Returned(Log(r.log, "STAGE-1", "Repository cloned successfully", "", ""), TRUE)
    ELSE Returned(r.log, FALSE)

\* Mutant: the workspace is not removed before it is (re)created.
clean_workspace_keep(w) == [w EXCEPT !.exists = TRUE]

\* Lines 57-59 when neither call raises: rmtree if the workspace exists, then
\* makedirs.
clean_workspace(w) == [exists |-> TRUE, files |-> {}, ver |-> w.ver]

\* Lines 54-63 up to the start of the clone.  rmtree may raise, before it
\* removed anything or with only the emptied directory left; makedirs may raise.
Stage1Begin ==
    /\ pc = "call"
    /\ stages[cur].func = 1
    /\ LET bl == Log(build_log, "STAGE-1", "Starting Stage 1: Clone Repository", "", "")
       IN  \/ /\ ws.exists
              /\ \E keep \in {ws.files, {}} :
                    ws' = [ws EXCEPT !.files = keep]
              /\ Return(Raised(bl, "PermissionError"))
              /\ UNCHANGED <<cmd_ret, cmds>>
           \/ /\ ws' = [exists |-> FALSE, files |-> {}, ver |-> ws.ver]
              /\ Return(Raised(bl, "OSError"))
              /\ UNCHANGED <<cmd_ret, cmds>>
           \/ /\ ws' = clean_workspace(ws)
              /\ build_log' = bl
              /\ child' = "clone"
              /\ cmds' = Called(cmds, clone_cmd, Pending)
              /\ pc' = "wait"
              /\ UNCHANGED <<results, rets, exit_code, cmd_ret>>
    /\ UNCHANGED <<platform, run, cur, all_passed, tree, dep, manifest, invoked, fault, manifest0>>

\* The clone ends: a successful clone leaves the entries of the repository in
\* the workspace, a failed one leaves it empty.
Stage1CloneExit ==
    /\ pc = "wait"
    /\ child = "clone"
    /\ \E o \in CmdOutcomes(clone_cmd), delivered \in Deliveries :
          LET r == run_command(build_log, clone_cmd, "STAGE-1", o)
          IN  /\ (o.kind = "exit" /\ o.rc = 0) \/ delivered = {}
              /\ ws' = [exists |-> TRUE, files |-> delivered, ver |-> run]
              /\ cmd_ret' = Outcome(clone_cmd, "STAGE-1", o, r, build_log)
              /\ cmds' = Ended(cmds, o)
              /\ Return(stage_1_result(r))
    /\ UNCHANGED <<platform, run, cur, all_passed, tree, dep, manifest, invoked, fault, manifest0>>

(***************************************************************************)
(* Stage 2: Install Dependencies                                           *)
(***************************************************************************)
\* Mutant: the stage goes on to the install whatever the venv command gave.
stage_2_venv_result_ignore(r) ==
    [go |-> TRUE,
     out |-> Returned(Log(r.log, "STAGE-2", "Virtual environment created", "", ""), TRUE)]

\* Lines 75-78: after the venv command gave r, the stage goes on to the
\* install (go) or returns.
stage_2_venv_result(r) ==
    IF r.kind = "raise" THEN [go |-> FALSE, out |-> Raised(r.log, r.exc)]
    ELSE IF r.val
    THEN [go |-> TRUE,
          out |-> Returned(Log(r.log, "STAGE-2", "Virtual environment created", "", ""), TRUE)]
    ELSE [go |-> FALSE, out |-> Returned(r.log, FALSE)]

\* Lines 86-89.
stage_2_result(r) ==
    IF r.kind = "raise" THEN Raised(r.log, r.exc)
    ELSE IF r.val
    THEN Returned(Log(r.log, "STAGE-2", "Dependencies installed successfully", "", ""), TRUE)
    ELSE Returned(r.log, FALSE)

\* Lines 70-75 and 81-86 up to the start of the first command of the stage.
Stage2Begin ==
    /\ pc = "call"
    /\ stages[cur].func = 2
    /\ LET bl == Log(build_log, "STAGE-2", "Starting Stage 2: Install Dependencies", "", "")
       IN  IF VenvDir \notin WsEntries(ws)
           THEN IF ws.exists
                THEN /\ build_log' = bl
                     /\ child' = "venv"
                     /\ cmds' = Called(cmds, venv_cmd, Pending)
                     /\ pc' = "wait"
                     /\ UNCHANGED <<results, rets, exit_code, cmd_ret>>
                ELSE LET r == run_command(bl, venv_cmd, "STAGE-2", CwdMissing)
                     IN  /\ cmd_ret' = Outcome(venv_cmd, "STAGE-2", CwdMissing, r, bl)
                         /\ cmds' = Called(cmds, venv_cmd, CwdMissing)
                         /\ ~stage_2_venv_result(r).go
                         /\ Return(stage_2_venv_result(r).out)
           ELSE /\ build_log' = bl
                /\ child' = "pip"
                /\ cmds' = Called(cmds, pip_cmd(platform), Pending)
                /\ pc' = "wait"
                /\ UNCHANGED <<results, rets, exit_code, cmd_ret>>
    /\ UNCHANGED <<platform, run, cur, all_passed, tree, ws, dep, manifest, invoked, fault, manifest0>>

\* The venv command ends; on success the workspace holds venv and the install
\* command starts.
Stage2VenvExit ==
    /\ pc = "wait"
    /\ child = "venv"
    /\ \E o \in CmdOutcomes(venv_cmd) :
          LET r == run_command(build_log, venv_cmd, "STAGE-2", o)
              s == stage_2_venv_result(r)
          IN  /\ cmd_ret' = Outcome(venv_cmd, "STAGE-2", o, r, build_log)
              /\ ws' = IF o.kind = "exit" /\ o.rc = 0
                       THEN [ws EXCEPT !.files = @ \cup {VenvDir}] ELSE ws
              /\ IF s.go
                 THEN /\ build_log' = s.out.log
                      /\ child' = "pip"
                      /\ cmds' = Called(Ended(cmds, o), pip_cmd(platform), Pending)
                      /\ pc' = "wait"
                      /\ UNCHANGED <<results, rets, exit_code>>
                 ELSE /\ cmds' = Ended(cmds, o)
                      /\ Return(s.out)
    /\ UNCHANGED <<platform, run, cur, all_passed, tree, dep, manifest, invoked, fault, manifest0>>

Stage2PipExit ==
    /\ pc = "wait"
    /\ child = "pip"
    /\ \E o \in CmdOutcomes(pip_cmd(platform)) :
          LET r == run_command(build_log, pip_cmd(platform), "STAGE-2", o)
          IN  /\ cmd_ret' = Outcome(pip_cmd(platform), "STAGE-2", o, r, build_log)
              /\ cmds' = Ended(cmds, o)
              /\ Return(stage_2_result(r))
    /\ UNCHANGED <<platform, run, cur, all_passed, tree, ws, dep, manifest, invoked, fault, manifest0>>

(***************************************************************************)
(* Stage 3: Run Unit Tests                                                 *)
(***************************************************************************)
\* Mutant: the stage takes the result of the test command the wrong way round.
stage_3_result_inverted(r) ==
    IF r.kind = "raise" THEN Raised(r.log, r.exc)
    ELSE IF ~r.val
    THEN Returned(Log(r.log, "STAGE-3", "All unit tests passed", "", ""), TRUE)
    ELSE Returned(Log(r.log, "STAGE-3", "Some tests failed", "", ""), FALSE)

\* Lines 100-105.
stage_3_result(r) ==
    IF r.kind = "raise" THEN Raised(r.log, r.exc)
    ELSE IF r.val
    THEN Returned(Log(r.log, "STAGE-3", "All unit tests passed", "", ""), TRUE)
    ELSE Returned(Log(r.log, "STAGE-3", "Some tests failed", "", ""), FALSE)

Stage3Begin ==
    /\ pc = "call"
    /\ stages[cur].func = 3
    /\ LET bl == Log(build_log, "STAGE-3", "Starting Stage 3: Run Unit Tests", "", "")
       IN  IF ws.exists
           THEN /\ build_log' = bl
                /\ child' = "pytest"
                /\ cmds' = Called(cmds, pytest_cmd(platform), Pending)
                /\ pc' = "wait"
                /\ UNCHANGED <<results, rets, exit_code, cmd_ret>>
           ELSE LET r == run_command(bl, pytest_cmd(platform), "STAGE-3", CwdMissing)
                IN  /\ cmd_ret' = Outcome(pytest_cmd(platform), "STAGE-3", CwdMissing, r, bl)
                    /\ cmds' = Called(cmds, pytest_cmd(platform), CwdMissing)
                    /\ Return(stage_3_result(r))
    /\ UNCHANGED <<platform, run, cur, all_passed, tree, ws, dep, manifest, invoked, fault, manifest0>>

Stage3TestExit ==
    /\ pc = "wait"
    /\ child = "pytest"
    /\ \E o \in CmdOutcomes(pytest_cmd(platform)) :
          LET r == run_command(build_log, pytest_cmd(platform), "STAGE-3", o)
          IN  /\ cmd_ret' = Outcome(pytest_cmd(platform), "STAGE-3", o, r, build_log)
              /\ cmds' = Ended(cmds, o)
              /\ Return(stage_3_result(r))
    /\ UNCHANGED <<platform, run, cur, all_passed, tree, ws, dep, manifest, invoked, fault, manifest0>>

(***************************************************************************)
(* Stage 4: Build Application                                              *)
(***************************************************************************)
\* The loop of lines 113-119 from required_files[i] on, then lines 121-122.
RECURSIVE VerifyFiles(_, _, _)
VerifyFiles(i, bl, present) ==
    IF i > Len(required_files)
    THEN Returned(Log(bl, "STAGE-4", "Application structure verified", "", ""), TRUE)
    ELSE IF required_files[i] \in present
    THEN VerifyFiles(i + 1, Log(bl, "STAGE-4", "Verified", required_files[i], ""), present)
    ELSE Returned(Log(bl, "STAGE-4", "Missing", required_files[i], ""), FALSE)

\* Mutant: the loop goes on after a missing artifact and the stage returns
\* False at the end.
RECURSIVE VerifyAll(_, _, _, _)
VerifyAll(i, bl, present, ok) ==
    IF i > Len(required_files)
    THEN IF ok
         THEN Returned(Log(bl, "STAGE-4", "Application structure verified", "", ""), TRUE)
         ELSE Returned(bl, FALSE)
    ELSE IF required_files[i] \in present
    THEN VerifyAll(i + 1, Log(bl, "STAGE-4", "Verified", required_files[i], ""), present, ok)
    ELSE VerifyAll(i + 1, Log(bl, "STAGE-4", "Missing", required_files[i], ""), present, FALSE)

stage_4_no_fail_fast(bl, w) ==
    VerifyAll(1, Log(bl, "STAGE-4", "Starting Stage 4: Build Application", "", ""),
              WsEntries(w), TRUE)

stage_4_build_application(bl, w) ==
    VerifyFiles(1, Log(bl, "STAGE-4", "Starting Stage 4: Build Application", "", ""),
                WsEntries(w))

Stage4 ==
    /\ pc = "call"
    /\ stages[cur].func = 4
    /\ Return(stage_4_build_application(build_log, ws))
    /\ UNCHANGED <<platform, run, cur, all_passed, tree, ws, dep, manifest, invoked,
                   cmd_ret, cmds, fault, manifest0>>

(***************************************************************************)
(* Stage 5: Deploy Application                                             *)
(***************************************************************************)
\* The filesystem faults the environment may put in the way of the stage: at
\* most one per run of the stage, at makedirs, at the rmtree or the copy of
\* files_to_copy[at], at the open of the manifest, or at a write after k lines
\* (here: after the first line).
PartialWrites == {1}

DeployFaults ==
    {NoFault, [op |-> "makedirs", at |-> 0, k |-> 0], [op |-> "open", at |-> 0, k |-> 0]}
    \cup {[op |-> "copy", at |-> i, k |-> 0] : i \in DOMAIN files_to_copy}
    \cup {[op |-> "rmtree", at |-> i, k |-> 0] :
            i \in {j \in DOMAIN files_to_copy : IsDirEntry(files_to_copy[j])}}
    \cup {[op |-> "write", at |-> 0, k |-> k] : k \in PartialWrites}

\* The fault is met only if the stage gets to the operation it sits on.
Applicable(f, w, d) ==
    LET upto(n) == \A j \in 1..n : files_to_copy[j] \in WsEntries(w)
    IN  CASE f.op \in {"none", "makedirs"} -> TRUE
          [] f.op = "copy" -> upto(f.at)
          [] f.op = "rmtree" -> upto(f.at) /\ d.files[files_to_copy[f.at]].present
          [] OTHER -> upto(Len(files_to_copy))

\* Mutant: an artifact the workspace lacks is skipped.
CopyFiles_skip_missing(i, d, bl, w, f) ==
    [ok |-> TRUE, exc |-> NoExc, log |-> bl,
     dep |-> [d EXCEPT !.files =
                [e \in DepEntries |->
                    IF e \in Range(files_to_copy) \cap WsEntries(w)
                    THEN [present |-> TRUE, ver |-> w.ver]
                    ELSE d.files[e]]]]

\* The loop of lines 134-147 from files_to_copy[i] on.
RECURSIVE CopyFiles(_, _, _, _, _)
CopyFiles(i, d, bl, w, f) ==
    IF i > Len(files_to_copy) THEN [ok |-> TRUE, dep |-> d, log |-> bl, exc |-> NoExc]
    ELSE
    LET file == files_to_copy[i]
        hit(op) == f.op = op /\ f.at = i
        put(dd) == [dd EXCEPT !.files[file] = [present |-> TRUE, ver |-> w.ver]]
        gone == [d EXCEPT !.files[file] = Absent]
        fail(dd, exc) ==
            IF CaughtInCopy(exc)
            THEN [ok |-> FALSE, dep |-> dd, exc |-> NoExc,
                  log |-> Log(bl, "STAGE-5", "Failed to copy", file, exc)]
            ELSE [ok |-> FALSE, dep |-> dd, exc |-> exc, log |-> bl]
        next(dd) == CopyFiles(i + 1, dd, Log(bl, "STAGE-5", "Copied", file, ""), w, f)
    IN  IF file \in WsEntries(w) /\ IsDirEntry(file)
        THEN IF d.files[file].present
             THEN IF hit("rmtree") THEN fail(d, "PermissionError")
                  ELSE IF hit("copy") THEN fail(gone, "OSError")
                  ELSE next(put(gone))
             ELSE IF hit("copy") THEN fail(d, "OSError") ELSE next(put(d))
        ELSE IF file \notin WsEntries(w) THEN fail(d, "FileNotFoundError")
        ELSE IF hit("copy") THEN fail(d, "PermissionError")
        ELSE next(put(d))

\* The four lines written at lines 153-156.
ManifestLines(now) ==
    << [key |-> "Deployment Date", val |-> now],
       [key |-> "Deployment Directory", val |-> deployment_dir],
       [key |-> "Pipeline Simulator Version", val |-> "1.0"],
       [key |-> "Status", val |-> "SUCCESS"] >>

\* Mutant: the manifest is opened with 'a'.
open_a(old) == old

\* open(manifest_path, 'w'): the content the file starts with.
open_w(old) == << >>

\* Lines 150-163: the manifest, then the return.
WriteManifest(c, m, f, now) ==
    LET fail(mm, exc) ==
            IF CaughtInManifest(exc)
            THEN [kind |-> "ret", val |-> FALSE, exc |-> NoExc, dep |-> c.dep, manifest |-> mm,
                  log |-> Log(c.log, "STAGE-5", "Failed to create manifest", "", exc)]
            ELSE [kind |-> "raise", val |-> FALSE, exc |-> exc, dep |-> c.dep,
                  manifest |-> mm, log |-> c.log]
        written(n) == [present |-> TRUE,
                       lines |-> open_w(m.lines) \o SubSeq(ManifestLines(now), 1, n)]
    IN  IF f.op = "open" THEN fail(m, "PermissionError")
        ELSE IF f.op = "write" THEN fail(written(f.k), "OSError")
        ELSE [kind |-> "ret", val |-> TRUE, exc |-> NoExc, dep |-> c.dep,
              manifest |-> written(Len(ManifestLines(now))),
              log |-> Log(Log(c.log, "STAGE-5", "Deployment manifest created", ManifestFile, ""),
                          "STAGE-5", "Application deployed successfully to", deployment_dir, "")]

\* Mutant: the manifest is written whether or not the copies succeeded.
stage_5_manifest_anyway(bl, w, d, m, f, now) ==
    LET bl0 == Log(bl, "STAGE-5", "Starting Stage 5: Deploy Application (Simulation)", "", "")
        bl1 == Log(bl0, "STAGE-5", "Deployment directory created", deployment_dir, "")
        c == CopyFiles(1, [d EXCEPT !.exists = TRUE], bl1, w, f)
        out == WriteManifest(c, m, NoFault, now)
    IN  IF c.ok THEN out
        ELSE [out EXCEPT !.kind = "ret", !.val = FALSE, !.log = c.log]

\* Mutant: the deployment directory is emptied before the copies.
makedirs_fresh(d) == [exists |-> TRUE, files |-> [e \in DepEntries |-> Absent]]

\* os.makedirs(self.deployment_dir, exist_ok=True): the directory exists
\* afterwards, with what it held.
makedirs(d) == [d EXCEPT !.exists = TRUE]

stage_5_deploy_application(bl, w, d, m, f, now) ==
    LET bl0 == Log(bl, "STAGE-5", "Starting Stage 5: Deploy Application (Simulation)", "", "")
        made == makedirs(d)
        bl1 == Log(bl0, "STAGE-5", "Deployment directory created", deployment_dir, "")
        c == CopyFiles(1, made, bl1, w, f)
    IN  IF f.op = "makedirs"
        THEN [kind |-> "raise", val |-> FALSE, exc |-> "PermissionError", dep |-> d,
              manifest |-> m, log |-> bl0]
        ELSE IF ~c.ok
        THEN [kind |-> IF c.exc = NoExc THEN "ret" ELSE "raise", val |-> FALSE,
              exc |-> c.exc, dep |-> c.dep, manifest |-> m, log |-> c.log]
        ELSE WriteManifest(c, m, f, now)

Stage5 ==
    /\ pc = "call"
    /\ stages[cur].func = 5
    /\ \E f \in DeployFaults :
          LET out == stage_5_deploy_application(build_log, ws, dep, manifest, f,
                                                ToString(run))
          IN  /\ Applicable(f, ws, dep)
              /\ fault' = f
              /\ dep' = out.dep
              /\ manifest' = out.manifest
              /\ Return(out)
    /\ UNCHANGED <<platform, run, cur, all_passed, tree, ws, invoked, cmd_ret, cmds, manifest0>>

(***************************************************************************)
(* The report, the return and the exit                                     *)
(***************************************************************************)
\* Mutant: the file tree is printed whatever the verdict.
Report_tree_always ==
    /\ pc = "loop"
    /\ cur = Len(stages)
    /\ all_passed' = AllPassed(results)
    /\ tree' = TRUE
    /\ pc' = "returned"
    /\ UNCHANGED <<platform, run, cur, child, build_log, results, exit_code, ws, dep,
                   manifest, invoked, rets, cmd_ret, cmds, fault, manifest0>>

\* Lines 188-213: the summary, all_passed, the tree on success, the return.
Report ==
    /\ pc = "loop"
    /\ cur = Len(stages)
    /\ all_passed' = AllPassed(results)
    /\ tree' = all_passed'
    /\ pc' = "returned"
    /\ UNCHANGED <<platform, run, cur, child, build_log, results, exit_code, ws, dep,
                   manifest, invoked, rets, cmd_ret, cmds, fault, manifest0>>

\* Lines 218-219: sys.exit(0 if success else 1).
Exit ==
    /\ pc = "returned"
    /\ exit_code' = IF all_passed THEN 0 ELSE 1
    /\ pc' = "exited"
    /\ UNCHANGED <<platform, run, cur, child, build_log, results, all_passed, tree, ws,
                   dep, manifest, invoked, rets, cmd_ret, cmds, fault, manifest0>>

\* The script is run again on the same host: a new process, a new simulator,
\* the filesystem as the last process left it.
NewProcess ==
    /\ pc \in {"exited", "crashed"}
    /\ run < MaxRuns
    /\ run' = run + 1
    /\ pc' = "new"
    /\ cur' = 0
    /\ child' = "none"
    /\ build_log' = << >>
    /\ results' = << >>
    /\ all_passed' = FALSE
    /\ tree' = FALSE
    /\ exit_code' = -1
    /\ invoked' = << >>
    /\ rets' = NoRets
    /\ cmd_ret' = NoCmd
    /\ cmds' = << >>
    /\ fault' = NoFault
    /\ manifest0' = manifest
    /\ UNCHANGED <<platform, ws, dep, manifest>>

Next ==
    \/ RunPipeline
    \/ NextStage
    \/ Stage1Begin
    \/ Stage1CloneExit
    \/ Stage2Begin
    \/ Stage2VenvExit
    \/ Stage2PipExit
    \/ Stage3Begin
    \/ Stage3TestExit
    \/ Stage4
    \/ Stage5
    \/ Report
    \/ Exit
    \/ NewProcess

Spec == Init /\ [][Next]_vars

\* Mutant: nothing says that the test runner ends.
ChildExit_tests_may_hang == Stage1CloneExit \/ Stage2VenvExit \/ Stage2PipExit

\* subprocess.run returns or raises: the child the program waits for has
\* ended.
ChildExit == Stage1CloneExit \/ Stage2VenvExit \/ Stage2PipExit \/ Stage3TestExit

\* A step the interpreter takes on its own, from the start of the script to
\* sys.exit.
ProgramStep ==
    \/ RunPipeline
    \/ NextStage
    \/ Stage1Begin
    \/ Stage2Begin
    \/ Stage3Begin
    \/ Stage4
    \/ Stage5
    \/ Report
    \/ Exit

\* The program under the condition that it keeps running and that every child
\* process ends: subprocess.run has no timeout, so the end of the child is the
\* only thing the wait depends on.  Starting the script again is left to the
\* user.
FairSpec == Spec /\ WF_vars(ProgramStep) /\ WF_vars(ChildExit)

(***************************************************************************)
(* The state machine of a stage, read off the loop of run_pipeline: a      *)
(* stage is NOT_STARTED until its function is called, RUNNING until the    *)
(* loop has recorded its outcome, and PASSED or FAILED from then on.       *)
(***************************************************************************)
StageState(name) ==
    IF name \in DictKeys(results) THEN DictGet(results, name)
    ELSE IF name \in Range(invoked) THEN "RUNNING"
    ELSE "NOT_STARTED"

\* The loop of run_pipeline has ended.
LoopEnded == \/ pc = "loop" /\ cur = Len(stages)
             \/ pc \in {"returned", "exited"}

(***************************************************************************)
(* Properties                                                              *)
(***************************************************************************)
FixedOrder ==
    << "Clone Repository", "Install Dependencies", "Run Unit Tests",
       "Build Application", "Deploy Application" >>

Count(seq, P(_)) == Cardinality({i \in DOMAIN seq : P(seq[i])})

\* C1: when the stage loop has ended, results holds exactly five outcomes, one
\* for each of the five stage names, and each stage function was called
\* exactly once, whatever the stages returned or raised.
C1_FiveOutcomes ==
    LoopEnded =>
        /\ Len(results) = 5
        /\ DictKeys(results) = Range(FixedOrder)
        /\ \A i \in DOMAIN results : results[i].val \in {PASSED, FAILED}
        /\ \A n \in Range(FixedOrder) : Count(invoked, LAMBDA x : x = n) = 1

\* A run whose loop ended with a stage that raised, one that returned False
\* and one that returned True.
C1_Witness ==
    /\ LoopEnded
    /\ \E i, j, k \in 1..5 : rets[i] = "raise" /\ rets[j] = "False" /\ rets[k] = "True"

\* C2: the stages are called in the fixed order; a stage goes from NOT_STARTED
\* to RUNNING to PASSED or FAILED and never back; a stage has started only if
\* its predecessor is PASSED or FAILED; at most one stage is RUNNING; and the
\* loop, whatever it has recorded, calls the next stage, so that all five are
\* PASSED or FAILED when it ends.
C2_StateInv ==
    /\ Len(invoked) <= Len(FixedOrder)
    /\ \A i \in DOMAIN invoked : invoked[i] = FixedOrder[i]
    /\ \A k \in 1..(Len(FixedOrder) - 1) :
          StageState(FixedOrder[k + 1]) # "NOT_STARTED"
              => StageState(FixedOrder[k]) \in {PASSED, FAILED}
    /\ Cardinality({n \in Range(FixedOrder) : StageState(n) = "RUNNING"}) <= 1
    /\ LoopEnded => \A n \in Range(FixedOrder) : StageState(n) \in {PASSED, FAILED}

C2_Step ==
    /\ run' = run =>
          \A n \in Range(FixedOrder) :
              \/ StageState(n)' = StageState(n)
              \/ StageState(n) = "NOT_STARTED" /\ StageState(n)' = "RUNNING"
              \/ StageState(n) = "RUNNING" /\ StageState(n)' \in {PASSED, FAILED}
    /\ \A k \in DOMAIN FixedOrder :
          (pc = "loop" /\ cur + 1 = k /\ run' = run)
              => StageState(FixedOrder[k])' = "RUNNING"

C2_StageOrder == [](C2_StateInv) /\ [][C2_Step]_vars

\* Build Application is RUNNING although Run Unit Tests is FAILED.
C2_Witness ==
    /\ StageState("Run Unit Tests") = FAILED
    /\ StageState("Build Application") = "RUNNING"

\* C3: the value run_pipeline returns is the conjunction of the five recorded
\* outcomes; the exit code is 0 exactly when all five are PASSED and 1 as soon
\* as one is FAILED.
C3_Verdict ==
    /\ pc \in {"returned", "exited"} =>
          (all_passed <=> \A n \in Range(FixedOrder) : StageState(n) = PASSED)
    /\ pc = "exited" =>
          /\ exit_code \in {0, 1}
          /\ exit_code = 0 <=> \A n \in Range(FixedOrder) : StageState(n) = PASSED
          /\ (\E n \in Range(FixedOrder) : StageState(n) = FAILED) => exit_code = 1

\* The process has exited with 1 with a single FAILED stage.
C3_Witness ==
    /\ pc = "exited"
    /\ exit_code = 1
    /\ Cardinality({n \in Range(FixedOrder) : StageState(n) = FAILED}) = 1

\* C4: a stage function that raises is caught by the loop: the log gets, as
\* its last entry, one carrying the stage name and the exception text, the
\* stage is recorded FAILED, the loop goes on to the remaining stages, and no
\* exception leaves run_pipeline: the process ends by sys.exit with 0 or 1.
C4_Inv ==
    /\ pc # "crashed"
    /\ pc = "exited" => exit_code \in {0, 1}
    /\ \A i \in DOMAIN FixedOrder :
          rets[i] = "raise" =>
              /\ StageState(FixedOrder[i]) = FAILED
              /\ Count(build_log,
                       LAMBDA e : /\ e.msg = "Exception in"
                                  /\ e.arg = FixedOrder[i]
                                  /\ e.tagged /\ e.stage = FixedOrder[i]
                                  /\ e.text \in ExcClasses) = 1
              /\ LoopEnded => Len(invoked) = Len(FixedOrder)
              /\ pc = "exited" => exit_code = 1

C4_Step ==
    \A i \in DOMAIN FixedOrder :
        (rets[i] = "none" /\ rets'[i] = "raise") =>
            /\ pc' = "loop"
            /\ Len(build_log') > Len(build_log)
            /\ SubSeq(build_log', 1, Len(build_log)) = build_log
            /\ build_log'[Len(build_log')].msg = "Exception in"
            /\ build_log'[Len(build_log')].arg = FixedOrder[i]
            /\ build_log'[Len(build_log')].text \in ExcClasses
            /\ StageState(FixedOrder[i])' = FAILED

C4_StageFaultCaught == [](C4_Inv) /\ [][C4_Step]_vars

\* The process exited after Clone Repository raised and Deploy Application,
\* called all the same, returned True.
C4_Witness ==
    /\ pc = "exited"
    /\ rets[1] = "raise"
    /\ rets[5] = "True"

\* C5: run_command never raises; it returns True exactly when the child ran
\* and exited with 0; on a non-zero exit it logs "Command failed" with the
\* command and "Error" with stderr, and when subprocess.run raises it logs
\* "Exception executing command" with the exception text, each under the
\* caller's stage tag.
C5_RunCommand ==
    cmd_ret.kind # "none" =>
        LET o == cmd_ret.o
            e(k) == build_log[cmd_ret.before + k]
        IN  /\ cmd_ret.kind = "ret"
            /\ cmd_ret.val <=> (o.kind = "exit" /\ o.rc = 0)
            /\ (o.kind = "exit" /\ o.rc # 0) =>
                  /\ Len(build_log) >= cmd_ret.before + 2
                  /\ e(1).msg = "Command failed" /\ e(1).arg = cmd_ret.cmd
                  /\ e(1).stage = cmd_ret.stage
                  /\ e(2).msg = "Error" /\ e(2).text = "stderr"
                  /\ e(2).stage = cmd_ret.stage
            /\ o.kind = "raise" =>
                  /\ Len(build_log) >= cmd_ret.before + 1
                  /\ e(1).msg = "Exception executing command" /\ e(1).text = o.exc
                  /\ e(1).stage = cmd_ret.stage

\* run_command was called with no workspace to run in, and returned False.
C5_Witness ==
    /\ cmd_ret.kind = "ret"
    /\ cmd_ret.o = CwdMissing
    /\ ~cmd_ret.val

\* C6: stage_4_build_application returns False exactly when one of app.py,
\* requirements.txt and templates is absent from the workspace; a False comes
\* with a 'Missing' entry naming an absent artifact, a True with a 'Verified'
\* entry for each of the three.
C6_BuildVerify ==
    rets[4] # "none" =>
        LET required == {"app.py", "requirements.txt", "templates"}
            logged(msg, a) ==
                \E i \in DOMAIN build_log :
                    /\ build_log[i].stage = "STAGE-4"
                    /\ build_log[i].msg = msg
                    /\ build_log[i].arg = a
        IN  /\ rets[4] \in {"True", "False"}
            /\ rets[4] = "False" <=> \E a \in required : a \notin WsEntries(ws)
            /\ rets[4] = "False" => \E a \in required \ WsEntries(ws) : logged("Missing", a)
            /\ rets[4] = "True" => \A a \in required : logged("Verified", a)

\* The stage returned False for a workspace that lacks only templates.
C6_Witness ==
    /\ rets[4] = "False"
    /\ {"app.py", "requirements.txt", "templates"} \ WsEntries(ws) = {"templates"}

\* The entries of stage 4 that give the status of artifact a.
StatusEntries(a, msgs) ==
    Count(build_log, LAMBDA e : e.stage = "STAGE-4" /\ e.msg \in msgs /\ e.arg = a)

\* C7 as stated: whatever subset of the three artifacts is present, each of
\* them has exactly one 'Verified' or 'Missing' entry.
C7_EachLoggedOnce ==
    rets[4] # "none" =>
        \A a \in {"app.py", "requirements.txt", "templates"} :
            StatusEntries(a, {"Verified", "Missing"}) = 1

\* C7 amended: no artifact has more than one status entry; in the order
\* app.py, requirements.txt, templates, the artifacts before the first absent
\* one have exactly one 'Verified' entry, the first absent one has exactly one
\* 'Missing' entry, and the artifacts after it have no entry at all.
C7_LoggedUpToFirstMissing ==
    rets[4] # "none" =>
        LET req == <<"app.py", "requirements.txt", "templates">>
            absent == {i \in DOMAIN req : req[i] \notin WsEntries(ws)}
            first == IF absent = {} THEN Len(req) + 1
                     ELSE CHOOSE i \in absent : \A j \in absent : i <= j
        IN  \A i \in DOMAIN req :
                /\ StatusEntries(req[i], {"Verified"}) = (IF i < first THEN 1 ELSE 0)
                /\ StatusEntries(req[i], {"Missing"}) = (IF i = first THEN 1 ELSE 0)

\* app.py is absent and templates is present: stage 4 returned with no status
\* entry for templates.
C7_Witness ==
    /\ rets[4] = "False"
    /\ "app.py" \notin WsEntries(ws)
    /\ "templates" \in WsEntries(ws)
    /\ StatusEntries("templates", {"Verified", "Missing"}) = 0

\* The last command run_command ran was the test command, and it exited
\* non-zero.
TestCommandFailed ==
    /\ cmd_ret.cmd = pytest_cmd(platform)
    /\ cmd_ret.o.kind = "exit"
    /\ cmd_ret.o.rc # 0

\* C8: when the test command exits non-zero, Run Unit Tests is FAILED, and
\* Build Application and Deploy Application are called and recorded all the
\* same; the verdict is failure and the exit code 1.  The outcomes of Build
\* and Deploy are functions of the workspace, which no step changes once the
\* test command runs, and of the filesystem fault Deploy meets: in every run,
\* passing tests or failing, Build is PASSED exactly when the three required
\* artifacts are in the workspace, and Deploy exactly when the four artifacts
\* to copy are there and no fault is met.  Two runs that differ in the exit
\* status of the test command alone hence record the same two outcomes.
C8_Inv ==
    /\ TestCommandFailed => StageState("Run Unit Tests") = FAILED
    /\ LoopEnded =>
          /\ StageState("Build Application") =
                (IF {"app.py", "requirements.txt", "templates"} \subseteq WsEntries(ws)
                 THEN PASSED ELSE FAILED)
          /\ StageState("Deploy Application") =
                (IF /\ {"app.py", "requirements.txt", "templates", "test_app.py"}
                          \subseteq WsEntries(ws)
                    /\ fault = NoFault
                 THEN PASSED ELSE FAILED)
    /\ (TestCommandFailed /\ pc \in {"returned", "exited"}) => ~all_passed
    /\ (TestCommandFailed /\ pc = "exited") => exit_code = 1

C8_Step ==
    ((child = "pytest" \/ rets[3] # "none") /\ run' = run) => ws' = ws

C8_TestFailureIndependent == [](C8_Inv) /\ [][C8_Step]_vars

\* The tests failed, Build and Deploy passed, and the process exited with 1.
C8_Witness ==
    /\ pc = "exited"
    /\ TestCommandFailed
    /\ StageState("Build Application") = PASSED
    /\ StageState("Deploy Application") = PASSED
    /\ exit_code = 1

\* C9: in stage_5_deploy_application an exception raised by the copy of an
\* artifact (the source is missing, or rmtree, copytree or copy2 fails) or by
\* the open or a write of the manifest does not leave the stage: the stage
\* returns False and its last log entry is 'Failed to copy' with the name of
\* the artifact, or 'Failed to create manifest', with the exception text.
C9_DeployFaultCaught ==
    rets[5] # "none" =>
        LET copy == <<"app.py", "requirements.txt", "templates", "test_app.py">>
            absent == {i \in DOMAIN copy : copy[i] \notin WsEntries(ws)}
            last == build_log[Len(build_log)]
            failed_copy(i) ==
                /\ rets[5] = "False"
                /\ last.stage = "STAGE-5"
                /\ last.msg = "Failed to copy"
                /\ last.arg = copy[i]
                /\ last.text \in ExcClasses
        IN  /\ fault.op # "makedirs" => rets[5] \in {"True", "False"}
            /\ fault.op \in {"copy", "rmtree"} => failed_copy(fault.at)
            /\ (fault.op = "none" /\ absent # {}) =>
                  /\ failed_copy(CHOOSE i \in absent : \A j \in absent : i <= j)
                  /\ last.text = "FileNotFoundError"
            /\ fault.op \in {"open", "write"} =>
                  /\ rets[5] = "False"
                  /\ last.stage = "STAGE-5"
                  /\ last.msg = "Failed to create manifest"
                  /\ last.text \in ExcClasses

\* The copy of the templates directory failed, at the rmtree of the copy an
\* earlier run left or at the copytree, and the stage returned False.
C9_Witness ==
    /\ rets[5] = "False"
    /\ fault.op \in {"copy", "rmtree"}
    /\ fault.at = 3
    /\ dep.files["requirements.txt"].present

\* C10: when stage_5_deploy_application has returned True, DEPLOYMENT_INFO.txt
\* holds exactly four lines, with the keys Deployment Date, Deployment
\* Directory, Pipeline Simulator Version and Status in this order, the date
\* being that of this run and the last line 'Status: SUCCESS'; nothing of the
\* content an earlier run left is kept.
C10_Manifest ==
    rets[5] = "True" =>
        /\ manifest.present
        /\ Len(manifest.lines) = 4
        /\ [i \in 1..4 |-> manifest.lines[i].key] =
              <<"Deployment Date", "Deployment Directory",
                "Pipeline Simulator Version", "Status">>
        /\ manifest.lines[1].val = ToString(run)
        /\ manifest.lines[4] = [key |-> "Status", val |-> "SUCCESS"]

\* The stage returned True in a process that found the manifest of an earlier
\* run.
C10_Witness ==
    /\ rets[5] = "True"
    /\ manifest0.present
    /\ Len(manifest0.lines) = 4
    /\ manifest0.lines[1].val # ToString(run)

\* C11 as stated: in a second run the fetch command is issued on an existing,
\* empty workspace, and once the second run's Deploy has returned, each of
\* the four artifacts is in the deployment directory with the content the
\* second run fetched.
C11_SecondRunReplacesAll ==
    /\ (run >= 2 /\ pc = "wait" /\ child = "clone") => (ws.exists /\ ws.files = {})
    /\ (run >= 2 /\ rets[5] # "none") =>
          \A f \in {"app.py", "requirements.txt", "templates", "test_app.py"} :
              dep.files[f].present /\ dep.files[f].ver = run

\* C11 amended: in a second run the fetch command is issued on an existing,
\* empty workspace; once the second run's Deploy has returned True, each of
\* the four artifacts is in the deployment directory with the content of the
\* second run's workspace, none keeping the content of the first run's copy;
\* that content is the one the second run fetched when its Clone stage
\* returned True.
C11_SecondRunOverwrites ==
    /\ (run >= 2 /\ pc = "wait" /\ child = "clone") => (ws.exists /\ ws.files = {})
    /\ (run >= 2 /\ rets[5] = "True") =>
          \A f \in {"app.py", "requirements.txt", "templates", "test_app.py"} :
              /\ dep.files[f].present
              /\ dep.files[f].ver = ws.ver
              /\ rets[1] = "True" => dep.files[f].ver = run

\* The second run, which found the deployment of the first, has cloned and
\* deployed.
C11_Witness ==
    /\ run = 2
    /\ rets[1] = "True"
    /\ rets[5] = "True"
    /\ manifest0.present /\ Len(manifest0.lines) = 4

\* The four artifacts Deploy copies.
FourArtifacts == {"app.py", "requirements.txt", "templates", "test_app.py"}

\* Every command run_command was called with in this run has exited with 0,
\* and the four commands of the pipeline are among them.
AllCommandsExitedZero ==
    /\ \A i \in DOMAIN cmds : cmds[i].o.kind = "exit" /\ cmds[i].o.rc = 0
    /\ {cmds[i].cmd : i \in DOMAIN cmds}
          = {clone_cmd, venv_cmd, pip_cmd(platform), pytest_cmd(platform)}

\* The result of the happy path: five PASSED, exit code 0, the four artifacts
\* and the manifest in the deployment directory.
HappyResult ==
    /\ \A n \in Range(FixedOrder) : StageState(n) = PASSED
    /\ pc = "returned" => all_passed
    /\ pc = "exited" => exit_code = 0
    /\ dep.exists
    /\ \A a \in FourArtifacts : dep.files[a].present /\ dep.files[a].ver = run
    /\ manifest.present /\ manifest.lines = ManifestLines(ToString(run))

IsPrefix(s, t) == Len(s) <= Len(t) /\ SubSeq(t, 1, Len(s)) = s

\* C13: build_log is append-only.  A call of log() on the current log, with or
\* without a stage, gives the same log with exactly one entry more at its
\* end; and every step of a run leaves the log it found as a prefix of the log
\* it leaves.
C13_LogCall ==
    \A stage \in {NoStage, "STAGE-1", "Deploy Application"} :
        LET after == Log(build_log, stage, "Starting pipeline", "", "")
        IN  /\ Len(after) = Len(build_log) + 1
            /\ IsPrefix(build_log, after)
            /\ after[Len(after)].msg = "Starting pipeline"
            /\ after[Len(after)].tagged <=> stage # NoStage
            /\ after[Len(after)].tagged => after[Len(after)].stage = stage

C13_Step == run' = run => IsPrefix(build_log, build_log')

C13_AppendOnly == [](C13_LogCall) /\ [][C13_Step]_vars

\* The loop has ended with entries of all five stages in the log, the last of
\* them logged by Deploy after a copy failed.
C13_Witness ==
    /\ LoopEnded
    /\ \A t \in {"STAGE-1", "STAGE-2", "STAGE-3", "STAGE-4", "STAGE-5"} :
          \E i \in DOMAIN build_log : build_log[i].stage = t
    /\ rets[5] = "False"
    /\ Len(build_log) >= 10

\* C14: the file tree of the deployment directory is printed exactly when the
\* verdict is success, and never before the verdict; the reporting step leaves
\* the recorded outcomes, the log and the filesystem as they were, and the
\* value it returns is the conjunction of the outcomes it found.
C14_Inv ==
    /\ pc \in {"returned", "exited"} => (tree <=> all_passed)
    /\ pc \notin {"returned", "exited"} => ~tree

C14_Step ==
    (pc = "loop" /\ pc' = "returned") =>
        /\ all_passed' <=> \A n \in Range(FixedOrder) : StageState(n) = PASSED
        /\ tree' <=> all_passed'
        /\ results' = results
        /\ <<build_log, ws, dep, manifest>>' = <<build_log, ws, dep, manifest>>

C14_TreeIffSuccess == [](C14_Inv) /\ [][C14_Step]_vars

\* run_pipeline returned False without printing the tree, although the
\* deployment directory holds a complete deployment.
C14_Witness ==
    /\ pc = "returned"
    /\ ~all_passed
    /\ ~tree
    /\ rets[5] = "True"
    /\ manifest.present

\* The calls of run_command of this run with the given command.
CallsOf(command) == {i \in DOMAIN cmds : cmds[i].cmd = command}

ExitedZero(i) == cmds[i].o.kind = "exit" /\ cmds[i].o.rc = 0

\* The call has ended (subprocess.run returned or raised) otherwise than by
\* an exit with 0.
FailedCall(i) == cmds[i].o # Pending /\ ~ExitedZero(i)

\* C15: stage 2 runs the venv command only when the workspace has no venv
\* entry, and runs it then; the install is never run after a venv command that
\* failed; the stage returns False when the venv command failed or the install
\* failed, True only when the install exited with 0, and it never raises.
C15_Inv ==
    /\ Cardinality(CallsOf(venv_cmd)) <= 1
    /\ Cardinality(CallsOf(pip_cmd(platform))) <= 1
    /\ \A i \in CallsOf(venv_cmd) :
          /\ FailedCall(i) =>
                /\ CallsOf(pip_cmd(platform)) = {}
                /\ rets[2] = "False"
          /\ \A j \in CallsOf(pip_cmd(platform)) : i < j /\ ExitedZero(i)
    /\ \A j \in CallsOf(pip_cmd(platform)) : FailedCall(j) => rets[2] = "False"
    /\ rets[2] = "True" =>
          \E j \in CallsOf(pip_cmd(platform)) : ExitedZero(j)
    /\ rets[2] = "False" =>
          \E i \in CallsOf(venv_cmd) \cup CallsOf(pip_cmd(platform)) : FailedCall(i)
    /\ rets[2] # "raise"

C15_Step ==
    \A k \in 1..5 :
        (pc = "call" /\ stages[cur].func = 2 /\ Len(cmds) + 1 = k) =>
            /\ Len(cmds') = k
            /\ cmds'[k].cmd = venv_cmd <=> VenvDir \notin WsEntries(ws)
            /\ cmds'[k].cmd = pip_cmd(platform) <=> VenvDir \in WsEntries(ws)

C15_InstallDependencies == [](C15_Inv) /\ [][C15_Step]_vars

\* Stage 2 returned False after a venv command that exited non-zero, without
\* calling the install.
C15_Witness ==
    /\ rets[2] = "False"
    /\ \E i \in CallsOf(venv_cmd) : cmds[i].o.kind = "exit" /\ cmds[i].o.rc # 0
    /\ CallsOf(pip_cmd(platform)) = {}

\* C16: when every child process ends, every run ends with sys.exit.  While a
\* child has not ended the stage that started it is RUNNING and the program
\* can take no step of its own, so that the only step that changes anything is
\* the end of the child: until then no outcome is recorded and no later stage
\* is called.
C16_Terminates == (pc # "exited") ~> (pc = "exited")

C16_Inv ==
    pc = "wait" =>
        /\ child # "none"
        /\ cmds # << >> /\ cmds[Len(cmds)].o = Pending
        /\ StageState(FixedOrder[cur]) = "RUNNING"
        /\ \A k \in DOMAIN FixedOrder : k > cur => StageState(FixedOrder[k]) = "NOT_STARTED"
        /\ ~ENABLED <<ProgramStep>>_vars

C16_Step ==
    pc = "wait" =>
        \/ cmds'[Len(cmds)].o # Pending
        \/ UNCHANGED <<invoked, results, rets, pc, child>>

C16_TerminatesIfChildrenExit == C16_Terminates /\ [](C16_Inv) /\ [][C16_Step]_vars

\* The program waits for the test runner, with Run Unit Tests RUNNING.
C16_Witness ==
    /\ pc = "wait"
    /\ child = "pytest"
    /\ StageState("Run Unit Tests") = "RUNNING"

\* C17: no step of any stage removes the deployment directory or changes an
\* entry of it that is none of the four artifacts and not the manifest; an
\* artifact once deployed is only ever replaced by Deploy, or lost when the
\* replacement of a directory (rmtree, then copytree) fails.
C17_Step ==
    /\ dep'.files[StaleEntry] = dep.files[StaleEntry]
    /\ dep.exists => dep'.exists
    /\ (pc = "call" /\ stages[cur].func = 5) \/ dep' = dep
    /\ \A a \in FourArtifacts :
          (dep.files[a].present /\ ~dep'.files[a].present)
              => /\ IsDirEntry(a)
                 /\ fault'.op \in {"rmtree", "copy"}
                 /\ files_to_copy[fault'.at] = a

C17_UnrelatedEntriesKept == [][C17_Step]_vars

\* The second run has deployed over a directory that held an entry of its own
\* before the first run, and the entry is still there.
C17_Witness ==
    /\ run = 2
    /\ rets[5] = "True"
    /\ manifest0.present
    /\ dep.files[StaleEntry].present

\* C18: the workspace is the same when Build and when Deploy look at it;
\* Deploy Application is PASSED only if Build Application is PASSED, and only
\* with the four artifacts in the workspace; when the loop has ended with one
\* of app.py, requirements.txt and templates absent, both are FAILED and
\* Deploy has logged the failed copy of an absent artifact, or of an earlier
\* one whose copy met a filesystem fault.
C18_Inv ==
    /\ StageState("Deploy Application") = PASSED
          => /\ StageState("Build Application") = PASSED
             /\ FourArtifacts \subseteq WsEntries(ws)
    /\ (LoopEnded /\ \E a \in {"app.py", "requirements.txt", "templates"} :
                        a \notin WsEntries(ws))
          => /\ StageState("Build Application") = FAILED
             /\ StageState("Deploy Application") = FAILED
             /\ rets[5] = "False" =>
                   \E i \in DOMAIN build_log :
                       /\ build_log[i].stage = "STAGE-5"
                       /\ build_log[i].msg = "Failed to copy"
                       /\ \/ build_log[i].arg \in FourArtifacts \ WsEntries(ws)
                          \/ /\ fault.op \in {"rmtree", "copy"}
                             /\ build_log[i].arg = files_to_copy[fault.at]

C18_Step ==
    (run' = run /\ rets[4] # "none") => ws' = ws

C18_DeployImpliesBuild == [](C18_Inv) /\ [][C18_Step]_vars

\* The clone succeeded but the repository lacks requirements.txt: Build and
\* Deploy are both FAILED, Deploy after copying app.py.
C18_Witness ==
    /\ LoopEnded
    /\ rets[1] = "True"
    /\ "requirements.txt" \notin WsEntries(ws)
    /\ "app.py" \in WsEntries(ws)
    /\ StageState("Build Application") = FAILED
    /\ StageState("Deploy Application") = FAILED
    /\ dep.files["app.py"].present /\ dep.files["app.py"].ver = run

\* The entries of Deploy in this run's log that report a copy of artifact a.
CopyEntries(bl, msg, a) ==
    {i \in DOMAIN bl : bl[i].stage = "STAGE-5" /\ bl[i].msg = msg /\ bl[i].arg = a}

\* C19: when the copy of artifact k of the four fails, Deploy returns False
\* with the failure as its last log entry, the artifacts before k are copied,
\* the deployed entries of the artifacts after k are what they were before the
\* stage, and the manifest is what it was before the stage; and whenever the
\* manifest differs from what the run found, all four artifacts were copied
\* in this run.
C19_Step ==
    \A k \in DOMAIN files_to_copy :
        (/\ pc = "call" /\ stages[cur].func = 5 /\ run' = run
         /\ CopyEntries(build_log', "Failed to copy", files_to_copy[k]) # {})
            => /\ rets'[5] = "False"
               /\ build_log'[Len(build_log')].msg = "Failed to copy"
               /\ build_log'[Len(build_log')].arg = files_to_copy[k]
               /\ manifest' = manifest
               /\ \A j \in DOMAIN files_to_copy :
                     /\ j > k =>
                           /\ dep'.files[files_to_copy[j]] = dep.files[files_to_copy[j]]
                           /\ CopyEntries(build_log', "Copied", files_to_copy[j]) = {}
                     /\ j < k =>
                           /\ dep'.files[files_to_copy[j]] = [present |-> TRUE, ver |-> ws.ver]
                           /\ CopyEntries(build_log', "Copied", files_to_copy[j]) # {}

C19_Inv ==
    /\ manifest # manifest0 =>
          \A a \in FourArtifacts :
              /\ CopyEntries(build_log, "Copied", a) # {}
              /\ CopyEntries(build_log, "Failed to copy", a) = {}
              /\ dep.files[a] = [present |-> TRUE, ver |-> ws.ver]
    /\ (\E a \in FourArtifacts : CopyEntries(build_log, "Failed to copy", a) # {})
          => manifest = manifest0 /\ rets[5] = "False"

C19_CopyFailureStopsDeploy == [](C19_Inv) /\ [][C19_Step]_vars

\* In a second run the copy of the second artifact failed: the first run's
\* manifest and the first run's copy of test_app.py are still there.
C19_Witness ==
    /\ run = 2
    /\ rets[5] = "False"
    /\ CopyEntries(build_log, "Failed to copy", "requirements.txt") # {}
    /\ manifest0.present /\ Len(manifest0.lines) = 4
    /\ manifest = manifest0
    /\ dep.files["app.py"] = [present |-> TRUE, ver |-> 2]
    /\ dep.files["test_app.py"] = [present |-> TRUE, ver |-> 1]

\* The tag the functions of stage i log under.
StageTags == <<"STAGE-1", "STAGE-2", "STAGE-3", "STAGE-4", "STAGE-5">>

\* The stages an entry can belong to by its tag: STAGE-i, or the name of
\* stage i.
StagesOf(e) == {i \in DOMAIN FixedOrder : e.stage \in {StageTags[i], FixedOrder[i]}}

\* C20: every entry of the log is tagged with STAGE-i or the name of a stage i,
\* and the entries are in stage order (no entry is followed by one of an
\* earlier stage, which for a sequence is the same as: every entry of stage i
\* precedes every entry of stage j > i); every entry added while the function of
\* stage n runs carries STAGE-n, the only other entry is the runner's, which
\* comes last, reports the exception of stage n that it caught and carries
\* the name of stage n; and no entry is added while no stage runs.
C20_Inv ==
    /\ \A i \in DOMAIN build_log :
          /\ build_log[i].tagged
          /\ Cardinality(StagesOf(build_log[i])) = 1
          /\ StagesOf(build_log[i]) \subseteq 1..Len(invoked)
    /\ \A i \in 1..(Len(build_log) - 1) :
          \A m \in StagesOf(build_log[i]), n \in StagesOf(build_log[i + 1]) : m <= n

C20_Step ==
    run' = run =>
        LET added == (Len(build_log) + 1)..Len(build_log')
        IN  IF pc \in {"call", "wait"}
            THEN \A i \in added :
                    \/ build_log'[i].stage = StageTags[cur]
                    \/ /\ i = Len(build_log')
                       /\ rets'[cur] = "raise"
                       /\ build_log'[i].msg = "Exception in"
                       /\ build_log'[i].stage = FixedOrder[cur]
            ELSE added = {}

C20_LogInStageOrder == [](C20_Inv) /\ [][C20_Step]_vars

\* The loop ended with entries of all five stages in the log, one of them the
\* runner's entry for the exception of an earlier stage than the last.
C20_Witness ==
    /\ LoopEnded
    /\ \A n \in DOMAIN StageTags : \E i \in DOMAIN build_log : build_log[i].stage = StageTags[n]
    /\ \E i \in DOMAIN build_log :
          /\ build_log[i].msg = "Exception in"
          /\ build_log[i].stage = "Clone Repository"
          /\ i < Len(build_log)
====
